---- MODULE Spec2Model ----
(***************************************************************************)
(* Model of src/main.py: a console (REPL) thread that broadcasts operator  *)
(* lines to the /events subscribers of an asyncio event loop, and the      *)
(* run_server coroutine that stops the server on /quit.                    *)
(*                                                                         *)
(* Strings are sequences of one-character strings, so that strip, lower,   *)
(* startswith, slicing and split are computed as Python computes them.     *)
(***************************************************************************)
EXTENDS Integers, Sequences, FiniteSets, TLC

(***************************************************************************)
(* Bounds of the model.                                                    *)
(***************************************************************************)
\* number of /events connections that may ever be opened
NumSubs == 2
\* number of lines the operator may type before the console is closed
MaxLines == 2
\* longest text after the prefix of a line given to parse_input
MaxBody == 4
\* longest payload given to the escaping and framing on their own
MaxPayload == 3
\* number of broadcasts, counted from the first, whose puts can raise
MaxFaulty == 1

(***************************************************************************)
(* Python string operations.                                               *)
(***************************************************************************)
\* str.isspace() on the characters the model uses
WS == {" ", "\t"}

\* str.lower() on one character
LowerChar(c) ==
    CASE c = "D" -> "d" [] c = "A" -> "a" [] c = "T" -> "t" [] c = "E" -> "e"
      [] c = "V" -> "v" [] c = "N" -> "n" [] c = "Q" -> "q" [] c = "H" -> "h"
      [] c = "U" -> "u" [] c = "I" -> "i" [] c = "L" -> "l" [] c = "P" -> "p"
      [] c = "B" -> "b"
      [] OTHER -> c

\* str.lower()
Lower(s) == [i \in 1..Len(s) |-> LowerChar(s[i])]

\* s[n:]
From(s, n) == IF n >= Len(s) THEN <<>> ELSE SubSeq(s, n + 1, Len(s))

RECURSIVE LStrip(_)
\* str.lstrip()
LStrip(s) == IF s /= <<>> /\ Head(s) \in WS THEN LStrip(Tail(s)) ELSE s

RECURSIVE RStrip(_)
\* str.rstrip()
RStrip(s) ==
    IF s /= <<>> /\ s[Len(s)] \in WS THEN RStrip(SubSeq(s, 1, Len(s) - 1)) ELSE s

\* str.strip()
StripLeftOnly(s) == LStrip(s)
Strip(s) == RStrip(LStrip(s))

\* str.startswith(p)
StartsWith(s, p) == Len(s) >= Len(p) /\ SubSeq(s, 1, Len(p)) = p

RECURSIVE Word(_)
\* the longest prefix of s without whitespace
Word(s) == IF s = <<>> \/ Head(s) \in WS THEN <<>> ELSE <<Head(s)>> \o Word(Tail(s))

\* str.split(None, 1): at most two fields, separated by the first run of
\* whitespace; leading whitespace is skipped and an empty field is not returned
Split1(s) ==
    LET t == LStrip(s)
        w == Word(t)
        r == LStrip(From(t, Len(w)))
    IN  IF t = <<>> THEN <<>>
        ELSE IF r = <<>> THEN <<w>>
        ELSE <<w, r>>

RECURSIVE Replace(_, _, _)
\* str.replace(c, r) for a one-character c
Replace(s, c, r) ==
    IF s = <<>> THEN <<>>
    ELSE (IF Head(s) = c THEN r ELSE <<Head(s)>>) \o Replace(Tail(s), c, r)

(***************************************************************************)
(* Literals of the program.                                                *)
(***************************************************************************)
MESSAGE == <<"m", "e", "s", "s", "a", "g", "e">>
DATA_PREFIX == <<"d", "a", "t", "a", ":">>
EVENT_PREFIX == <<"e", "v", "e", "n", "t", ":">>
QUIT_TOKENS == {<<"/", "q", "u", "i", "t">>, <<"/", "q">>}
HelpTokensLongOnly == {<<"/", "h", "e", "l", "p">>}
HELP_TOKENS == {<<"/", "h", "e", "l", "p">>, <<"/", "h">>}

(***************************************************************************)
(* parse_input                                                             *)
(***************************************************************************)
\* line.lower().startswith(p), compared without case
HasPrefixNoLower(line, p) == StartsWith(line, p)
HasPrefix(line, p) == StartsWith(Lower(line), p)

\* rest.split(None, 1)
SplitRest(rest) == Split1(rest)

\* l.125: return (parts[0], "")
NameOnlySwapped(parts) == <<<<>>, parts[1]>>
NameOnly(parts) == <<parts[1], <<>>>>

\* parse_input(line) -> <<event_type, message>>
parse_input(line0) ==
    LET line == Strip(line0)
    IN  IF HasPrefix(line, DATA_PREFIX)
        THEN <<MESSAGE, Strip(From(line, 5))>>
        ELSE IF HasPrefix(line, EVENT_PREFIX)
        THEN LET rest == Strip(From(line, 6))
                 parts == SplitRest(rest)
             IN  IF Len(parts) = 2 THEN <<parts[1], parts[2]>>
                 ELSE IF Len(parts) = 1 THEN NameOnly(parts)
                 ELSE <<MESSAGE, line>>
        ELSE <<MESSAGE, line>>

(***************************************************************************)
(* State.                                                                  *)
(***************************************************************************)
VARIABLES
    repl_pc,         \* repl_thread: "wait" (l.57), "read" (l.68), "quit" (l.77), "eof" (l.91)
    nread,           \* lines the operator has typed so far
    nsub,            \* broadcasts submitted so far; the n-th carries id n (history)
    ready,           \* coroutines handed to the loop by run_coroutine_threadsafe, FIFO
    bc,              \* the broadcast_message call the loop is running, or NoBc
    subscribers,     \* context.subscribers
    queue,           \* client_queue of each connection
    emitted,         \* frames each event_generator has yielded
    ep_pc,           \* event_generator: "idle", "get" (l.173), "yield" (l.182/185), "done"
    exit_cause,      \* why an event_generator left its loop (history)
    removed,         \* calls of context.subscribers.remove per connection (history)
    started,         \* ids of the broadcasts that have copied the subscriber list (history)
    before,          \* value of started when the connection subscribed (history)
    at_dereg,        \* value of started when the connection unsubscribed (history)
    shutdown_event,  \* context.shutdown_event: "none", "clear", "set"
    server_started,  \* context.server_started_event is set
    rs_pc,           \* run_server: "init", "sleep" (l.236), "wait" (l.245),
                     \*   "stopping" (l.255), "cleanup" (l.260), "returned"
    server_task,     \* server_task: "none", "serving", "finished", "cancelled"
    should_exit,     \* server.should_exit as run_server sets it
    timed_out,       \* "Server shutdown timed out" was printed
    pin,             \* argument of a parse_input call on its own
    pout             \* its result, or NoResult

vars == <<repl_pc, nread, nsub, ready, bc, subscribers, queue, emitted, ep_pc,
          exit_cause, removed, started, before, at_dereg, shutdown_event,
          server_started, rs_pc, server_task, should_exit, timed_out, pin, pout>>

replVars == <<repl_pc, nread, nsub>>
subVars == <<subscribers, queue, emitted, ep_pc, exit_cause, removed, before, at_dereg>>
serverVars == <<shutdown_event, server_started, rs_pc, server_task, should_exit, timed_out>>
parseVars == <<pin, pout>>

Chan == 1..NumSubs
NoBc == [active |-> FALSE]
NoResult == <<"none">>
EmptyLine == <<>>

\* what the operator may type, as typed
ReplLines ==
    { <<"d", "a", "t", "a", ":", " ", "a">>,
      <<"E", "v", "e", "n", "t", ":", " ", "p", " ", "b">>,
      <<" ", "/", "Q">>,
      <<"/", "h">>,
      <<" ">> }

\* asyncio.Queue(): a new, empty, unbounded queue
NewQueueStale == IF subscribers = <<>> THEN <<>> ELSE queue[subscribers[1]]
NewQueue == <<>>

\* Queue.put on an unbounded queue: appends and never suspends
QueuePutFront(q, e) == <<e>> \o q
QueuePut(q, e) == Append(q, e)

\* context.subscribers[:]
SnapshotDropFirst(subs) == IF subs = <<>> THEN subs ELSE Tail(subs)
Snapshot(subs) == subs

RECURSIVE RemoveFirst(_, _)
RemoveFirst(subs, c) ==
    IF subs = <<>> THEN <<>>
    ELSE IF Head(subs) = c THEN Tail(subs)
    ELSE <<Head(subs)>> \o RemoveFirst(Tail(subs), c)

\* list.remove(c): removes the first element equal to c
RemoveNothing(subs, c) == subs
RemoveLast(subs, c) == IF subs = <<>> THEN subs ELSE SubSeq(subs, 1, Len(subs) - 1)
Remove(subs, c) == RemoveFirst(subs, c)

\* message.replace('\\', '\\\\').replace('"', '\\"').replace('\n', '\\n')
EscapeBackslashLast(message) ==
    Replace(Replace(Replace(message, "\"", <<"\\", "\"">>), "\n", <<"\\", "n">>),
            "\\", <<"\\", "\\">>)
Escape(message) ==
    Replace(Replace(Replace(message, "\\", <<"\\", "\\">>), "\"", <<"\\", "\"">>),
            "\n", <<"\\", "n">>)

\* datetime.now().isoformat(): one token stands for the time of the call
Timestamp == <<"T">>

\* the f-strings of event_generator; the literal pieces are single tokens
DataLine(message, timestamp) ==
    <<"data: {\"message\": \"">> \o message \o <<"\", \"timestamp\": \"">>
        \o timestamp \o <<"\"}", "\n">>

FrameAlwaysEvent(event_data, timestamp) ==
    <<"event: ">> \o event_data.type \o <<"\n">>
        \o DataLine(event_data.message, timestamp) \o <<"\n">>
Frame(event_data, timestamp) ==
    IF event_data.type = MESSAGE
    THEN DataLine(event_data.message, timestamp) \o <<"\n">>
    ELSE <<"event: ">> \o event_data.type \o <<"\n">>
             \o DataLine(event_data.message, timestamp) \o <<"\n">>

\* the coroutine objects given to run_coroutine_threadsafe
BroadcastCoro(event_type, message, id) ==
    [op |-> "broadcast_message", type |-> event_type, message |-> message, id |-> id]
ShutdownCoro == [op |-> "trigger_shutdown", type |-> <<>>, message |-> <<>>, id |-> 0]

\* the process ends when run_server returns: the REPL thread is a daemon
Alive == rs_pc /= "returned"
\* the event loop runs one callback at a time: nothing else runs on the loop while
\* broadcast_message is between its first and last statement (it never suspends)
LoopIdle == Alive /\ ~bc.active

Init ==
    /\ repl_pc = "wait" /\ nread = 0 /\ nsub = 0
    /\ ready = <<>> /\ bc = NoBc
    /\ subscribers = <<>>
    /\ queue = [c \in Chan |-> <<>>]
    /\ emitted = [c \in Chan |-> <<>>]
    /\ ep_pc = [c \in Chan |-> "idle"]
    /\ exit_cause = [c \in Chan |-> "none"]
    /\ removed = [c \in Chan |-> 0]
    /\ started = {}
    /\ before = [c \in Chan |-> {}]
    /\ at_dereg = [c \in Chan |-> {}]
    /\ shutdown_event = "none" /\ server_started = FALSE
    /\ rs_pc = "init" /\ server_task = "none"
    /\ should_exit = FALSE /\ timed_out = FALSE
    /\ pin = EmptyLine /\ pout = NoResult

(***************************************************************************)
(* repl_thread (the Producer Loop), on its own thread.                     *)
(***************************************************************************)
\* context.server_started_event.wait()
ReplCanStartNoWait == TRUE
ReplCanStart == server_started

\* handle_quit_command: what the loop is handed
HandleQuitFirst(rdy) == IF shutdown_event /= "none" THEN <<ShutdownCoro>> \o rdy ELSE rdy
HandleQuit(rdy) == IF shutdown_event /= "none" THEN Append(rdy, ShutdownCoro) ELSE rdy

\* except EOFError / KeyboardInterrupt: break
OnEOFShutdown(rdy) == HandleQuit(rdy)
OnEOF(rdy) == rdy

\* l.56-64: wait for the server, print the banner
ReplStart ==
    /\ Alive /\ repl_pc = "wait" /\ ReplCanStart
    /\ repl_pc' = "read"
    /\ UNCHANGED <<nread, nsub, ready, bc, started, subVars, serverVars, parseVars>>

\* l.66-89: one turn of the loop on the line the operator typed
ReplRead(line) ==
    /\ Alive /\ repl_pc = "read" /\ nread < MaxLines
    /\ nread' = nread + 1
    /\ LET stripped == Lower(Strip(line))
       IN  IF Strip(line) = <<>>
           THEN UNCHANGED <<repl_pc, nsub, ready>>
           ELSE IF stripped \in QUIT_TOKENS
           THEN /\ ready' = HandleQuit(ready)
                /\ repl_pc' = "quit"
                /\ UNCHANGED nsub
           ELSE IF stripped \in HELP_TOKENS
           THEN UNCHANGED <<repl_pc, nsub, ready>>
           ELSE LET ev == parse_input(line)
                IN  /\ ready' = Append(ready, BroadcastCoro(ev[1], ev[2], nsub + 1))
                    /\ nsub' = nsub + 1
                    /\ UNCHANGED repl_pc
    /\ UNCHANGED <<bc, started, subVars, serverVars, parseVars>>

\* l.90-93: input() raises EOFError or KeyboardInterrupt
ReplEOF ==
    /\ Alive /\ repl_pc = "read"
    /\ repl_pc' = "eof"
    /\ ready' = OnEOF(ready)
    /\ UNCHANGED <<nread, nsub, bc, started, subVars, serverVars, parseVars>>

(***************************************************************************)
(* Coroutines the REPL scheduled, run by the loop in the order scheduled.  *)
(***************************************************************************)
\* trigger_shutdown
TriggerShutdown ==
    /\ LoopIdle /\ ready /= <<>> /\ Head(ready).op = "trigger_shutdown"
    /\ ready' = Tail(ready)
    /\ shutdown_event' = IF shutdown_event /= "none" THEN "set" ELSE shutdown_event
    /\ UNCHANGED <<replVars, bc, started, subVars, server_started, rs_pc,
                   server_task, should_exit, timed_out, parseVars>>

\* broadcast_message, l.142-146: escape the message, copy the subscriber list
BroadcastStart ==
    /\ LoopIdle /\ ready /= <<>> /\ Head(ready).op = "broadcast_message"
    /\ LET co == Head(ready)
       IN  /\ bc' = [active |-> TRUE,
                     event_data |-> [type |-> co.type, message |-> Escape(co.message),
                                     id |-> co.id],
                     snap |-> Snapshot(subscribers), i |-> 1, errors |-> {}]
           /\ started' = started \cup {co.id}
    /\ ready' = Tail(ready)
    /\ UNCHANGED <<replVars, subVars, serverVars, parseVars>>

\* l.165: asyncio.Queue() has no maxsize, so a put finds room whatever the queue
\* holds and returns without suspending
PutHasRoomBounded(q) == Len(q) < 1
PutHasRoom(q) == TRUE

\* l.146-148: await queue.put(event_data) for the next queue of the copy
BroadcastPut ==
    /\ Alive /\ bc.active /\ bc.i <= Len(bc.snap)
    /\ PutHasRoom(queue[bc.snap[bc.i]])
    /\ queue' = [queue EXCEPT ![bc.snap[bc.i]] = QueuePut(@, bc.event_data)]
    /\ bc' = [bc EXCEPT !.i = @ + 1]
    /\ UNCHANGED <<replVars, ready, started, subscribers, emitted, ep_pc, exit_cause,
                   removed, before, at_dereg, serverVars, parseVars>>

\* l.149-150: the exception of a put is caught and printed, the for loop goes on
\* (errors holds the queues for which "Error broadcasting to subscriber" was
\* printed by this call)
AfterPutErrorAbort(b, c) == [b EXCEPT !.i = Len(b.snap) + 1, !.errors = @ \cup {c}]
AfterPutError(b, c) == [b EXCEPT !.i = @ + 1, !.errors = @ \cup {c}]

\* the queue whose put can raise: that of the first connection
FaultyChan == CHOOSE c \in Chan : \A d \in Chan : c <= d

\* l.147-150: queue.put raises for the next queue of the copy
BroadcastPutFails ==
    /\ Alive /\ bc.active /\ bc.i <= Len(bc.snap)
    /\ bc.event_data.id <= MaxFaulty /\ bc.snap[bc.i] = FaultyChan
    /\ bc' = AfterPutError(bc, bc.snap[bc.i])
    /\ UNCHANGED <<replVars, ready, started, subVars, serverVars, parseVars>>

\* the for loop is exhausted: broadcast_message returns
BroadcastEnd ==
    /\ Alive /\ bc.active /\ bc.i > Len(bc.snap)
    /\ bc' = NoBc
    /\ UNCHANGED <<replVars, ready, started, subVars, serverVars, parseVars>>

(***************************************************************************)
(* event_generator of one /events connection, run by the loop.             *)
(***************************************************************************)
Active(c) == ep_pc[c] \in {"get", "yield"}

\* l.168: context.subscribers.append(client_queue)
RegisterTwice(subs, c) == Append(Append(subs, c), c)
Register(subs, c) == Append(subs, c)

\* l.165-173: create the queue, subscribe, wait for the first event
Subscribe(c) ==
    /\ LoopIdle /\ server_task = "serving"
    /\ ep_pc[c] = "idle" /\ \A d \in Chan : d < c => ep_pc[d] /= "idle"
    /\ queue' = [queue EXCEPT ![c] = NewQueue]
    /\ subscribers' = Register(subscribers, c)
    /\ ep_pc' = [ep_pc EXCEPT ![c] = "get"]
    /\ before' = [before EXCEPT ![c] = started]
    /\ UNCHANGED <<replVars, ready, bc, started, emitted, exit_cause, removed,
                   at_dereg, serverVars, parseVars>>

\* l.173-185: client_queue.get() returns an event; format and yield its frame
Emit(c) ==
    /\ LoopIdle /\ ep_pc[c] = "get" /\ queue[c] /= <<>>
    /\ LET event_data == Head(queue[c])
       IN  emitted' = [emitted EXCEPT ![c] =
                          Append(@, [frame |-> Frame(event_data, Timestamp),
                                     id |-> event_data.id])]
    /\ queue' = [queue EXCEPT ![c] = Tail(@)]
    /\ ep_pc' = [ep_pc EXCEPT ![c] = "yield"]
    /\ UNCHANGED <<replVars, ready, bc, started, subscribers, exit_cause, removed,
                   before, at_dereg, serverVars, parseVars>>

\* the frame was written: the generator is resumed and waits at l.173 again
Resume(c) ==
    /\ LoopIdle /\ ep_pc[c] = "yield"
    /\ ep_pc' = [ep_pc EXCEPT ![c] = "get"]
    /\ UNCHANGED <<replVars, ready, bc, started, subscribers, queue, emitted,
                   exit_cause, removed, before, at_dereg, serverVars, parseVars>>

\* l.186-188: the finally block, entered by the exception that ends the loop
Finally(c, cause) ==
    /\ subscribers' = Remove(subscribers, c)
    /\ removed' = [removed EXCEPT ![c] = @ + 1]
    /\ ep_pc' = [ep_pc EXCEPT ![c] = "done"]
    /\ exit_cause' = [exit_cause EXCEPT ![c] = cause]
    /\ at_dereg' = [at_dereg EXCEPT ![c] = started]
    /\ UNCHANGED <<replVars, ready, bc, started, queue, emitted, before,
                   serverVars, parseVars>>

\* the client closes the connection: the generator is cancelled at its await
\* (l.173) or closed at its yield (l.182/185)
ClientDisconnect(c) ==
    /\ LoopIdle /\ Active(c)
    /\ Finally(c, "disconnect")

\* writing the yielded frame fails: the generator is closed at its yield
WriteError(c) ==
    /\ LoopIdle /\ ep_pc[c] = "yield"
    /\ Finally(c, "write_error")

\* the server, told to exit, cancels the task of the connection
ShutdownCancel(c) ==
    /\ LoopIdle /\ Active(c) /\ should_exit
    /\ Finally(c, "cancelled")

(***************************************************************************)
(* run_server and the server task it supervises, run by the loop.          *)
(***************************************************************************)
\* shutdown_task (context.shutdown_event.wait()) is done
ShutdownTaskDoneAlways == TRUE
ShutdownTaskDone == shutdown_event = "set"

ServerTaskDone == server_task \in {"finished", "cancelled"}

\* asyncio.wait_for(server_task, timeout=5.0): the timeout can expire
WaitForNoTimeout == FALSE
WaitForCanExpire == TRUE

\* l.227-236: create the event and the server task, sleep
RunServerStart ==
    /\ LoopIdle /\ rs_pc = "init"
    /\ shutdown_event' = "clear"
    /\ server_task' = "serving"
    /\ rs_pc' = "sleep"
    /\ UNCHANGED <<replVars, ready, bc, started, subVars, server_started,
                   should_exit, timed_out, parseVars>>

\* l.239-245: tell the REPL the server started, wait for the first of
\* server_task and shutdown_task
RunServerStarted ==
    /\ LoopIdle /\ rs_pc = "sleep"
    /\ server_started' = TRUE
    /\ rs_pc' = "wait"
    /\ UNCHANGED <<replVars, ready, bc, started, subVars, shutdown_event,
                   server_task, should_exit, timed_out, parseVars>>

\* l.245-255: asyncio.wait returns; when shutdown_task is done, tell the server to exit
RunServerWake ==
    /\ LoopIdle /\ rs_pc = "wait"
    /\ ServerTaskDone \/ ShutdownTaskDone
    /\ IF ShutdownTaskDone
       THEN should_exit' = TRUE /\ rs_pc' = "stopping"
       ELSE should_exit' = should_exit /\ rs_pc' = "cleanup"
    /\ UNCHANGED <<replVars, ready, bc, started, subVars, shutdown_event,
                   server_started, server_task, timed_out, parseVars>>

\* l.255: the server task finished within the timeout
RunServerStopDone ==
    /\ LoopIdle /\ rs_pc = "stopping" /\ ServerTaskDone
    /\ rs_pc' = "cleanup"
    /\ UNCHANGED <<replVars, ready, bc, started, subVars, shutdown_event,
                   server_started, server_task, should_exit, timed_out, parseVars>>

\* l.255-257: the timeout expires; wait_for cancels the server task, and the
\* notice is printed
RunServerTimeout ==
    /\ LoopIdle /\ rs_pc = "stopping" /\ ~ServerTaskDone /\ WaitForCanExpire
    /\ server_task' = "cancelled"
    /\ timed_out' = TRUE
    /\ rs_pc' = "cleanup"
    /\ UNCHANGED <<replVars, ready, bc, started, subVars, shutdown_event,
                   server_started, should_exit, parseVars>>

\* l.260-265: cancel what is pending and return; main closes the loop and exits
RunServerReturn ==
    /\ LoopIdle /\ rs_pc = "cleanup"
    /\ server_task' = IF ServerTaskDone THEN server_task ELSE "cancelled"
    /\ rs_pc' = "returned"
    /\ UNCHANGED <<replVars, ready, bc, started, subVars, shutdown_event,
                   server_started, should_exit, timed_out, parseVars>>

\* server.serve() returns: told to exit by run_server or by a signal of its own,
\* once no connection is left open
ServerFinish ==
    /\ LoopIdle /\ server_task = "serving"
    /\ \A c \in Chan : ~Active(c)
    /\ server_task' = "finished"
    /\ UNCHANGED <<replVars, ready, bc, started, subVars, shutdown_event,
                   server_started, rs_pc, should_exit, timed_out, parseVars>>

(***************************************************************************)
(* The system.                                                             *)
(***************************************************************************)
Next ==
    \/ ReplStart
    \/ \E line \in ReplLines : ReplRead(line)
    \/ ReplEOF
    \/ TriggerShutdown
    \/ BroadcastStart
    \/ BroadcastPut
    \/ BroadcastEnd
    \/ \E c \in Chan : Subscribe(c)
    \/ \E c \in Chan : Emit(c)
    \/ \E c \in Chan : Resume(c)
    \/ \E c \in Chan : ClientDisconnect(c)
    \/ \E c \in Chan : WriteError(c)
    \/ \E c \in Chan : ShutdownCancel(c)
    \/ RunServerStart
    \/ RunServerStarted
    \/ RunServerWake
    \/ RunServerStopDone
    \/ RunServerTimeout
    \/ RunServerReturn
    \/ ServerFinish

Spec == Init /\ [][Next]_vars

\* the program with a queue whose put can raise
NextFail == Next \/ BroadcastPutFails

SpecFail == Init /\ [][NextFail]_vars

\* what the event loop does when it can: it runs the coroutines handed to it and
\* resumes run_server; a wait_for that has not returned times out
LoopStep ==
    \/ TriggerShutdown
    \/ BroadcastStart
    \/ BroadcastPut
    \/ BroadcastEnd
    \/ RunServerStart
    \/ RunServerStarted
    \/ RunServerWake
    \/ RunServerStopDone
    \/ RunServerTimeout
    \/ RunServerReturn

FairSpec == Spec /\ WF_vars(LoopStep)

\* the client whose connection stalls: it stops reading, the write of a frame
\* never completes and the generator stays at its yield (l.182/185)
StalledChan == CHOOSE c \in Chan : \A d \in Chan : c <= d

\* l.171-185: one step of the while loop of a generator
Consume(c) == Emit(c) \/ Resume(c)

\* the loop runs what is ready, and the clients other than the stalled one keep
\* reading: their generators are resumed after a yield and woken by a put
StallSpec ==
    /\ Spec
    /\ WF_vars(LoopStep)
    /\ \A c \in Chan \ {StalledChan} : WF_vars(Consume(c))

(***************************************************************************)
(* parse_input on its own, over every line of a bounded family.            *)
(***************************************************************************)
BodyChars == {" ", "\t", "a", "b"}
Bodies == UNION {[1..n -> BodyChars] : n \in 0..MaxBody}
Prefixes ==
    { <<>>,
      DATA_PREFIX,
      <<"D", "A", "T", "A", ":">>,
      <<"D", "a", "t", "a", ":">>,
      EVENT_PREFIX,
      <<"E", "V", "E", "N", "T", ":">>,
      <<"e", "v", "e", "n", "t">> }
Leads == {<<>>, <<" ">>}
ParseLines == {l \o p \o b : l \in Leads, p \in Prefixes, b \in Bodies}

InitParse ==
    /\ repl_pc = "wait" /\ nread = 0 /\ nsub = 0
    /\ ready = <<>> /\ bc = NoBc
    /\ subscribers = <<>>
    /\ queue = [c \in Chan |-> <<>>]
    /\ emitted = [c \in Chan |-> <<>>]
    /\ ep_pc = [c \in Chan |-> "idle"]
    /\ exit_cause = [c \in Chan |-> "none"]
    /\ removed = [c \in Chan |-> 0]
    /\ started = {}
    /\ before = [c \in Chan |-> {}]
    /\ at_dereg = [c \in Chan |-> {}]
    /\ shutdown_event = "none" /\ server_started = FALSE
    /\ rs_pc = "init" /\ server_task = "none"
    /\ should_exit = FALSE /\ timed_out = FALSE
    /\ pin \in ParseLines /\ pout = NoResult

\* event_type, message = parse_input(line)
ParseCall ==
    /\ pout = NoResult
    /\ pout' = parse_input(pin)
    /\ UNCHANGED <<replVars, ready, bc, started, subVars, serverVars, pin>>

NextParse == ParseCall

SpecParse == InitParse /\ [][NextParse]_vars

(***************************************************************************)
(* The escaping of broadcast_message and the framing of event_generator on *)
(* their own, over every kind and payload of a bounded family.             *)
(***************************************************************************)
PayloadChars == {"\\", "\"", "\n", "a", "n"}
Payloads == UNION {[1..n -> PayloadChars] : n \in 0..MaxPayload}
Kinds ==
    { MESSAGE,
      <<"p">>,
      <<"M", "e", "s", "s", "a", "g", "e">>,
      <<"d", "a", "t", "a", ":">> }

InitCodec ==
    /\ repl_pc = "wait" /\ nread = 0 /\ nsub = 0
    /\ ready = <<>> /\ bc = NoBc
    /\ subscribers = <<>>
    /\ queue = [c \in Chan |-> <<>>]
    /\ emitted = [c \in Chan |-> <<>>]
    /\ ep_pc = [c \in Chan |-> "idle"]
    /\ exit_cause = [c \in Chan |-> "none"]
    /\ removed = [c \in Chan |-> 0]
    /\ started = {}
    /\ before = [c \in Chan |-> {}]
    /\ at_dereg = [c \in Chan |-> {}]
    /\ shutdown_event = "none" /\ server_started = FALSE
    /\ rs_pc = "init" /\ server_task = "none"
    /\ should_exit = FALSE /\ timed_out = FALSE
    /\ pin \in Kinds \X Payloads /\ pout = NoResult

\* l.142-145 then l.176-185: the message is escaped, and the event is framed
\* pin = <<event_type, message>>, pout = <<escaped_message, frame>>
EncodeCall ==
    /\ pout = NoResult
    /\ LET escaped_message == Escape(pin[2])
           event_data == [type |-> pin[1], message |-> escaped_message, id |-> 0]
       IN  pout' = <<escaped_message, Frame(event_data, Timestamp)>>
    /\ UNCHANGED <<replVars, ready, bc, started, subVars, serverVars, pin>>

NextCodec == EncodeCall

SpecCodec == InitCodec /\ [][NextCodec]_vars

(***************************************************************************)
(* Properties.                                                             *)
(***************************************************************************)
\* the ids of the events ever put on the queue of c, oldest first
Hist(c) ==
    [i \in 1..Len(emitted[c]) |-> emitted[c][i].id]
        \o [i \in 1..Len(queue[c]) |-> queue[c][i].id]

Count(x, s) == Cardinality({i \in 1..Len(s) : s[i] = x})

InRegistry(c) == \E i \in 1..Len(subscribers) : subscribers[i] = c

\* broadcast_message has gone through its whole loop and is about to return
BroadcastDone == bc.active /\ bc.i > Len(bc.snap)

\* C1: when a call of broadcast_message has finished its loop, every channel in the
\* registry holds exactly one copy of the event, as the newest item of its queue,
\* and no channel outside the registry holds any copy.
C1_OneCopyPerSubscriber ==
    BroadcastDone =>
        \A c \in Chan :
            IF InRegistry(c)
            THEN /\ Count(bc.event_data.id, Hist(c)) = 1
                 /\ queue[c] /= <<>>
                 /\ queue[c][Len(queue[c])] = bc.event_data
            ELSE Count(bc.event_data.id, Hist(c)) = 0

\* a broadcast has finished with two channels registered
C1_Witness == BroadcastDone /\ Len(subscribers) = 2

\* C2: every subscriber emits the frames of the events it received in the order
\* in which the REPL submitted the broadcasts (ids are given in that order).
C2_EmitsInSubmissionOrder ==
    \A c \in Chan :
        \A i, j \in 1..Len(emitted[c]) : i < j => emitted[c][i].id < emitted[c][j].id

\* a subscriber has emitted two frames, both queued before the first was emitted
C2_Witness == \E c \in Chan : Len(emitted[c]) = 2 /\ ep_pc[c] = "yield"

\* C3: an event whose broadcast copied the subscriber list before a subscriber
\* registered is never on that subscriber's queue and never emitted by it.
C3_NothingFromBeforeJoining ==
    \A c \in Chan : \A k \in before[c] : Count(k, Hist(c)) = 0

\* a subscriber joined after one broadcast and has received a later one
C3_Witness == \E c \in Chan : before[c] /= {} /\ Hist(c) /= <<>>

\* C4: an event_generator that has left its loop is no longer in the registry and
\* called remove once; one that has not left has not called remove.
C4_RemovedExactlyOnce ==
    \A c \in Chan :
        /\ ep_pc[c] = "done" => ~InRegistry(c) /\ removed[c] = 1
        /\ ep_pc[c] /= "done" => removed[c] = 0

\* one generator left on a write error and another was cancelled by the shutdown
C4_Witness ==
    \E c, d \in Chan :
        /\ ep_pc[c] = "done" /\ exit_cause[c] = "write_error"
        /\ ep_pc[d] = "done" /\ exit_cause[d] = "cancelled"

\* C5: every event on the queue of a deregistered channel comes from a broadcast
\* that copied the subscriber list before the deregistration, and at most once.
C5_NothingAfterDeregistering ==
    \A c \in Chan :
        ep_pc[c] = "done" =>
            \A i \in 1..Len(Hist(c)) :
                /\ Hist(c)[i] \in at_dereg[c]
                /\ Count(Hist(c)[i], Hist(c)) <= 1

\* a channel that had received an event was deregistered, and a later broadcast
\* has run to the end of its loop
C5_Witness ==
    \E c \in Chan :
        /\ ep_pc[c] = "done" /\ Hist(c) /= <<>>
        /\ BroadcastDone /\ bc.event_data.id \notin at_dereg[c]

\* C6: the turn of the loop that reads a quit token hands the loop exactly one
\* trigger_shutdown and no broadcast, and ends the REPL for good; a quit token is
\* only ever read once the shutdown event exists.
C6_QuitRaisesSignalAndStops ==
    /\ [](repl_pc = "quit" => shutdown_event /= "none")
    /\ [][ /\ (repl_pc = "read" /\ repl_pc' = "quit") =>
                 (ready' = Append(ready, ShutdownCoro) /\ nsub' = nsub)
           /\ repl_pc = "quit" => UNCHANGED <<repl_pc, nread, nsub>> ]_vars

\* the REPL has read a quit token and the signal it raised is set
C6_Witness == repl_pc = "quit" /\ shutdown_event = "set"

\* C7: the shutdown event is unset when run_server has created it, is set only
\* after the REPL has read a quit token, and once set stays set.
C7_SignalSetOnceByQuit ==
    /\ [](rs_pc = "init" => shutdown_event = "none")
    /\ [](rs_pc = "sleep" => shutdown_event = "clear")
    /\ [][ /\ shutdown_event = "set" => shutdown_event' = "set"
           /\ shutdown_event = "clear" => shutdown_event' /= "none"
           /\ (shutdown_event /= "set" /\ shutdown_event' = "set") => repl_pc = "quit"
         ]_vars

\* the signal is set while the server is being stopped
C7_Witness == shutdown_event = "set" /\ rs_pc = "stopping"

\* the lifecycle of the serving runtime, read off run_server
Lifecycle ==
    IF rs_pc = "returned" THEN "STOPPED"
    ELSE IF should_exit THEN "STOPPING"
    ELSE "RUNNING"

\* C8 as claimed: RUNNING is left only for STOPPING and only once the quit command
\* has raised the signal, STOPPED is entered only from STOPPING, and STOPPED is final.
C8_Original ==
    [][ /\ (Lifecycle = "RUNNING" /\ Lifecycle' /= "RUNNING") =>
              (Lifecycle' = "STOPPING" /\ shutdown_event = "set" /\ repl_pc = "quit")
        /\ (Lifecycle /= "STOPPED" /\ Lifecycle' = "STOPPED") => Lifecycle = "STOPPING"
        /\ Lifecycle = "STOPPING" => Lifecycle' \in {"STOPPING", "STOPPED"}
        /\ Lifecycle = "STOPPED" => Lifecycle' = "STOPPED" ]_vars

\* C8, amended: STOPPING is entered only from RUNNING once the quit command has
\* raised the signal; STOPPED is entered from STOPPING, or from RUNNING when the
\* server task has finished by itself; STOPPING never goes back to RUNNING, and
\* STOPPED is final.
C8_LifecycleTransitions ==
    [][ /\ (Lifecycle = "RUNNING" /\ Lifecycle' = "STOPPING") =>
              (shutdown_event = "set" /\ repl_pc = "quit")
        /\ (Lifecycle = "RUNNING" /\ Lifecycle' = "STOPPED") => server_task = "finished"
        /\ Lifecycle = "STOPPING" => Lifecycle' \in {"STOPPING", "STOPPED"}
        /\ Lifecycle = "STOPPED" => Lifecycle' = "STOPPED" ]_vars

\* the runtime has stopped after passing through STOPPING
C8_Witness == Lifecycle = "STOPPED" /\ should_exit /\ shutdown_event = "set"

\* C9: once the REPL has read a quit token, run_server returns; when it returns
\* after a timeout, the notice was printed and the server task was cancelled, and
\* otherwise the server task had finished.
C9_QuitLeadsToStopped ==
    /\ (repl_pc = "quit") ~> (rs_pc = "returned")
    /\ [](timed_out => should_exit /\ server_task = "cancelled")
    /\ []((rs_pc = "returned" /\ ~timed_out) => server_task = "finished")

\* run_server returned after the timeout while a subscriber was still connected
C9_Witness == rs_pc = "returned" /\ timed_out /\ \E c \in Chan : Active(c)

(***************************************************************************)
(* The reference rules for lines with a data: or event: prefix, stated on  *)
(* the shape of the line rather than computed.                             *)
(***************************************************************************)
IsWs(s) == \A i \in 1..Len(s) : s[i] \in WS
NoWs(s) == \A i \in 1..Len(s) : s[i] \notin WS
Trimmed(s) == s = <<>> \/ (s[1] \notin WS /\ s[Len(s)] \notin WS)

\* s is t with whitespace around it, and t has none at its ends
TrimOf(s, t) ==
    /\ Trimmed(t)
    /\ \E a \in 0..Len(s) :
           /\ a + Len(t) <= Len(s)
           /\ IsWs(SubSeq(s, 1, a))
           /\ SubSeq(s, a + 1, a + Len(t)) = t
           /\ IsWs(SubSeq(s, a + Len(t) + 1, Len(s)))

\* s is whitespace, name, a run of whitespace, rest, whitespace
NameAndRest(s, name, rest) ==
    /\ name /= <<>> /\ NoWs(name)
    /\ rest /= <<>> /\ Trimmed(rest)
    /\ \E a \in 0..Len(s), k \in 1..Len(s) :
           LET n == a + Len(name)
               m == n + k + Len(rest)
           IN  /\ m <= Len(s)
               /\ IsWs(SubSeq(s, 1, a))
               /\ SubSeq(s, a + 1, n) = name
               /\ IsWs(SubSeq(s, n + 1, n + k))
               /\ SubSeq(s, n + k + 1, m) = rest
               /\ IsWs(SubSeq(s, m + 1, Len(s)))

\* the rules for a line that starts with data: or event:, with `fallback` the
\* payload when nothing follows event:
PrefixRules(line, res, fallback) ==
    /\ StartsWith(Lower(line), DATA_PREFIX) =>
           (res[1] = MESSAGE /\ TrimOf(From(line, 5), res[2]))
    /\ StartsWith(Lower(line), EVENT_PREFIX) =>
           LET r == From(line, 6)
           IN  \/ IsWs(r) /\ res = <<MESSAGE, fallback>>
               \/ /\ res[1] /= <<>> /\ NoWs(res[1]) /\ TrimOf(r, res[1])
                  /\ res[2] = <<>>
               \/ NameAndRest(r, res[1], res[2])

\* C10 as claimed: when nothing follows event:, the payload is the line as typed.
C10_Original == pout /= NoResult => PrefixRules(pin, pout, pin)

\* C10, amended: when nothing follows event:, the payload is the line with the
\* whitespace around it removed; the other rules are as claimed.
C10_PrefixedLines == pout /= NoResult => PrefixRules(pin, pout, Strip(pin))

\* an upper-case event: line whose name and message are separated by a run of
\* two whitespace characters was parsed
C10_Witness ==
    /\ pout /= NoResult
    /\ pin = <<"E", "V", "E", "N", "T", ":", "a", " ", "\t", "b">>
    /\ pout = <<<<"a">>, <<"b">>>>

\* the quit and help tokens of the console grammar
CommandTokens ==
    { <<"/", "q", "u", "i", "t">>, <<"/", "q">>, <<"/", "h", "e", "l", "p">>, <<"/", "h">> }

\* the line is not blank, not a command, and has neither prefix
PlainLine(line) ==
    /\ ~IsWs(line)
    /\ \A t \in CommandTokens : ~TrimOf(Lower(line), t)
    /\ ~StartsWith(Lower(line), DATA_PREFIX)
    /\ ~StartsWith(Lower(line), EVENT_PREFIX)

\* C11 as claimed: a line that is not blank, not a command and has no prefix
\* gives kind "message" and, as payload, the line as typed.
C11_Original == (pout /= NoResult /\ PlainLine(pin)) => pout = <<MESSAGE, pin>>

\* C11, amended: when the line without the whitespace around it is not empty, not
\* a command and has no prefix, the kind is "message" and the payload is the line
\* without the whitespace around it.
C11_PlainLines ==
    pout /= NoResult =>
        \A a \in 1..Len(pin), b \in 1..Len(pin) :
            LET t == SubSeq(pin, a, b)
            IN  (a <= b /\ TrimOf(pin, t) /\ PlainLine(t)) => pout = <<MESSAGE, t>>

\* a plain line typed with whitespace before and after it was parsed
C11_Witness ==
    /\ pout = <<MESSAGE, <<"a", " ", "b">>>>
    /\ pin = <<" ", "a", " ", "b", " ">>

\* C12: the kind parse_input returns is never empty, so no coroutine handed to
\* the loop, no running broadcast and no queued event has an empty kind; the
\* payload may be empty.
C12_KindNeverEmpty ==
    /\ pout /= NoResult => pout[1] /= <<>>
    /\ \A i \in 1..Len(ready) : ready[i].op = "broadcast_message" => ready[i].type /= <<>>
    /\ bc.active => bc.event_data.type /= <<>>
    /\ \A c \in Chan : \A i \in 1..Len(queue[c]) : queue[c][i].type /= <<>>

\* an event: line with a name and nothing else gave an empty payload
C12_Witness == pout /= NoResult /\ pout[1] = <<"a", "b">> /\ pout[2] = <<>>

\* the line is a help token, or a quit token, of the console grammar
IsHelpLine(line) ==
    \E t \in {<<"/", "h", "e", "l", "p">>, <<"/", "h">>} : TrimOf(Lower(line), t)
IsQuitLine(line) ==
    \E t \in {<<"/", "q", "u", "i", "t">>, <<"/", "q">>} : TrimOf(Lower(line), t)

\* C13: reading a blank line or a help token changes nothing but the count of
\* lines read, and the REPL goes on reading; reading any other line that is not
\* a quit token hands the loop exactly one more broadcast_message and nothing else.
C13_BlankAndHelpChangeNothing ==
    [][ \A line \in ReplLines :
            ReplRead(line) =>
                /\ (IsWs(line) \/ IsHelpLine(line)) =>
                       /\ UNCHANGED <<repl_pc, nsub, ready, bc, started, subVars, serverVars>>
                       /\ repl_pc' = "read"
                /\ (~IsWs(line) /\ ~IsHelpLine(line) /\ ~IsQuitLine(line)) =>
                       /\ nsub' = nsub + 1
                       /\ Len(ready') = Len(ready) + 1
                       /\ SubSeq(ready', 1, Len(ready)) = ready
                       /\ ready'[Len(ready')].op = "broadcast_message"
                       /\ UNCHANGED <<repl_pc, bc, started, subVars, serverVars>>
      ]_vars

\* two lines were read with a subscriber connected, only one of them was
\* broadcast, and the REPL is still reading
C13_Witness ==
    /\ nread = 2 /\ nsub = 1 /\ repl_pc = "read"
    /\ \E c \in Chan : Len(Hist(c)) = 1

\* C14: the turn that meets end-of-input hands nothing to the loop and changes
\* neither the signal, the server nor the subscribers; the REPL stays terminated,
\* the signal is never set afterwards and the server is never told to exit.
C14_EndOfInputRaisesNothing ==
    /\ [][ /\ (repl_pc = "read" /\ repl_pc' = "eof") =>
                 UNCHANGED <<nsub, ready, bc, started, subVars, serverVars>>
           /\ repl_pc = "eof" => repl_pc' = "eof" ]_vars
    /\ [](repl_pc = "eof" =>
              /\ shutdown_event /= "set" /\ ~should_exit
              /\ \A i \in 1..Len(ready) : ready[i].op /= "trigger_shutdown")

\* the input ended while the server was running with two subscribers registered
C14_Witness ==
    /\ repl_pc = "eof" /\ rs_pc = "wait" /\ server_task = "serving"
    /\ Len(subscribers) = 2

\* C20: when the signal is set, the REPL has terminated on a quit token, every
\* broadcast submitted has run to its end and none is pending; from then on no
\* queue receives anything.
C20_NoEventAfterShutdownSignal ==
    /\ [](shutdown_event = "set" =>
              /\ repl_pc = "quit"
              /\ ready = <<>> /\ ~bc.active
              /\ started = 1..nsub)
    /\ [][ shutdown_event = "set" => \A c \in Chan : Hist(c)' = Hist(c) ]_vars

\* the signal is set after an event submitted before /quit reached a subscriber
C20_Witness ==
    /\ shutdown_event = "set" /\ nsub = 1
    /\ \E c \in Chan : Len(Hist(c)) = 1

RECURSIVE SplitLines(_, _)
\* the lines of a text, each ended by a newline token; cur is the line being read
SplitLines(text, cur) ==
    IF text = <<>> THEN (IF cur = <<>> THEN <<>> ELSE <<cur>>)
    ELSE IF Head(text) = "\n" THEN <<cur>> \o SplitLines(Tail(text), <<>>)
    ELSE SplitLines(Tail(text), Append(cur, Head(text)))

IsEventLine(l) == l /= <<>> /\ l[1] = "event: "
IsDataLine(l) == l /= <<>> /\ l[1] = "data: {\"message\": \""

\* C15: the frame of an event is an event: line carrying the kind (only when the
\* kind is not exactly "message"), then one data: line, then an empty line, and
\* nothing else.
C15_FrameShape ==
    pout /= NoResult =>
        LET frame == pout[2]
            ls == SplitLines(frame, <<>>)
            n == Len(ls)
        IN  /\ frame[Len(frame)] = "\n"
            /\ n >= 2 /\ ls[n] = <<>>
            /\ \A i \in 1..(n - 1) : ls[i] /= <<>>
            /\ Cardinality({i \in 1..n : IsDataLine(ls[i])}) = 1
            /\ IsDataLine(ls[n - 1])
            /\ IF pin[1] /= MESSAGE
               THEN n = 3 /\ ls[1] = <<"event: ">> \o pin[1]
               ELSE n = 2 /\ \A i \in 1..n : ~IsEventLine(ls[i])

\* an event of kind p whose payload holds a newline was framed
C15_Witness == pout /= NoResult /\ pin = <<<<"p">>, <<"a", "\n", "n">>>>

RECURSIVE ValidJsonBody(_)
\* s is the inside of a JSON string: no bare quote, backslash or newline, and
\* every backslash starts an escape
ValidJsonBody(s) ==
    IF s = <<>> THEN TRUE
    ELSE IF Head(s) = "\\"
    THEN /\ Len(s) >= 2
         /\ s[2] \in {"\\", "\"", "/", "b", "f", "n", "r", "t"}
         /\ ValidJsonBody(From(s, 2))
    ELSE Head(s) \notin {"\"", "\n"} /\ ValidJsonBody(Tail(s))

RECURSIVE JsonUnescape(_)
\* the string a JSON reader gets from the inside of a JSON string
JsonUnescape(s) ==
    IF s = <<>> THEN <<>>
    ELSE IF Head(s) = "\\" /\ Len(s) >= 2
    THEN <<(IF s[2] = "n" THEN "\n" ELSE s[2])>> \o JsonUnescape(From(s, 2))
    ELSE <<Head(s)>> \o JsonUnescape(Tail(s))

RECURSIVE EscapedByChar(_)
\* every backslash, quote and newline replaced by its two-character escape
EscapedByChar(s) ==
    IF s = <<>> THEN <<>>
    ELSE (CASE Head(s) = "\\" -> <<"\\", "\\">>
            [] Head(s) = "\"" -> <<"\\", "\"">>
            [] Head(s) = "\n" -> <<"\\", "n">>
            [] OTHER -> <<Head(s)>>) \o EscapedByChar(Tail(s))

\* C16: the escaped message is the payload with every backslash, quote and
\* newline replaced by its two-character escape; it is a valid inside of a JSON
\* string, and reading it back gives the payload.
C16_EscapeIsJson ==
    pout /= NoResult =>
        /\ pout[1] = EscapedByChar(pin[2])
        /\ ValidJsonBody(pout[1])
        /\ JsonUnescape(pout[1]) = pin[2]

\* a payload of a backslash, the letter n and a quote was escaped
C16_Witness ==
    /\ pout /= NoResult
    /\ pin[2] = <<"\\", "n", "\"">>
    /\ pout[1] = <<"\\", "\\", "n", "\\", "\"">>

C18_PutFailureIsContained ==
    /\ [][ (bc.active /\ bc'.active /\ bc'.errors /= bc.errors) =>
              /\ bc'.i = bc.i + 1
              /\ bc'.errors = bc.errors \cup {bc.snap[bc.i]}
              /\ bc'.snap = bc.snap /\ bc'.event_data = bc.event_data
              /\ UNCHANGED <<replVars, ready, started, subVars, serverVars>> ]_vars
    /\ [](bc.active =>
            /\ bc.i <= Len(bc.snap) + 1
            /\ \A j \in 1..Len(bc.snap) :
                 LET c == bc.snap[j]
                 IN  IF j < bc.i /\ c \notin bc.errors
                     THEN /\ Count(bc.event_data.id, Hist(c)) = 1
                          /\ queue[c] /= <<>>
                          /\ queue[c][Len(queue[c])] = bc.event_data
                     ELSE Count(bc.event_data.id, Hist(c)) = 0)
    /\ [](BroadcastDone => \A c \in Chan : InRegistry(c) <=> \E j \in 1..Len(bc.snap) : bc.snap[j] = c)

\* a broadcast to two channels has finished: the put failed for the first and
\* the second holds the event
C18_Witness ==
    /\ BroadcastDone /\ bc.snap = <<1, 2>> /\ bc.errors = {1}
    /\ queue[2] /= <<>> /\ queue[2][Len(queue[2])] = bc.event_data
    /\ repl_pc = "read" /\ Active(1) /\ Active(2)

\* no broadcast is running and no client that keeps reading has an event waiting
Settled ==
    ~bc.active /\ \A c \in Chan \ {StalledChan} : Active(c) => queue[c] = <<>>

\* C19: whatever one client leaves unread, every broadcast that has started
\* finishes its loop, having put the event on every registered channel, and the
\* events put on the channel of another client do not stay there: again and again
\* no broadcast is running and the queue of every other open connection is empty
\* (or the process has exited), and an event leaves a queue only by being emitted.
C19_StalledSubscriberBlocksNobody ==
    /\ []<>(Settled \/ ~Alive)
    /\ [](BroadcastDone =>
            \A c \in Chan : InRegistry(c) =>
                queue[c] /= <<>> /\ queue[c][Len(queue[c])] = bc.event_data)
    /\ [][ \A c \in Chan : ep_pc[c] /= "idle" =>
              /\ Len(Hist(c)') >= Len(Hist(c))
              /\ SubSeq(Hist(c)', 1, Len(Hist(c))) = Hist(c) ]_vars

\* the first client stalled after its first frame and the second event waits in
\* its queue, while the second client has emitted both events
C19_Witness ==
    /\ ep_pc[StalledChan] = "yield"
    /\ Len(emitted[StalledChan]) = 1 /\ Len(queue[StalledChan]) = 1
    /\ \E c \in Chan \ {StalledChan} :
           Len(emitted[c]) = 2 /\ queue[c] = <<>> /\ Active(c)
    /\ Settled /\ Alive

====
